---- MODULE Spec2Model ----
(***************************************************************************)
(* Model of the unary call pipeline of the client (src/client.go) and of   *)
(* the status codes it surfaces (src/unnamed/part_000).                    *)
(*                                                                         *)
(* Texts (header values, messages) are sequences of characters so that     *)
(* the parsers can walk them; a word that no parser looks into is kept as  *)
(* one chunk, e.g. <<"gzip">>.  A Code is a Go uint32, kept as two 16-bit  *)
(* halves [hi, lo] so that the conversion of a negative int wraps as it    *)
(* does in Go.                                                             *)
(***************************************************************************)
EXTENDS Integers, Sequences, FiniteSets, TLC

VARIABLES
  client,    \* the Client value: doer, url, method, opts
  workload,  \* what the callers may pass to Call: goroutines, options, contexts
  heap,      \* the http.Header maps allocated so far, by address
  pc,        \* per goroutine: "idle", "Do" (blocked in Doer.Do), "Body", "done"
  cfg,       \* per goroutine: the folded callCfg of its call
  ctx,       \* per goroutine: the context the terminal function received
  request,   \* per goroutine: the *http.Request submitted to the transport
  response,  \* per goroutine: the *http.Response the transport returned
  called,    \* per goroutine: the contexts the terminal function was invoked with
  trace,     \* per goroutine: the steps the terminal function has executed
  ret,       \* per goroutine: what Call returned
  wraps,     \* per goroutine: how often Call wrapped the terminal function
  codec      \* the last text conversion of a Code: its input and its result

vars == <<client, workload, heap, pc, cfg, ctx, request, response, called, trace, ret,
          wraps, codec>>

----------------------------------------------------------------------------
\* Bounds of the model.

\* Number of goroutines calling the same Client in ConcSpec.
MaxCalls == 2

\* Remaining durations of a deadline range over -MaxRemaining..MaxRemaining.
MaxRemaining == 1

\* Codes 0..MaxCodeIn are serialized, numerals -MaxCodeIn..MaxCodeIn parsed.
MaxCodeIn == 40

----------------------------------------------------------------------------
\* Status codes (src/unnamed/part_000).

CodeOK == 0
CodeCanceled == 1
CodeUnknown == 2
CodeInvalidArgument == 3
CodeDeadlineExceeded == 4
CodeNotFound == 5
CodeAlreadyExists == 6
CodePermissionDenied == 7
CodeResourceExhausted == 8
CodeFailedPrecondition == 9
CodeAborted == 10
CodeOutOfRange == 11
CodeUnimplemented == 12
CodeInternal == 13
CodeUnavailable == 14
CodeDataLoss == 15
CodeUnauthenticated == 16

minCode == CodeOK
maxCode == CodeUnauthenticated

\* One half of a uint32.
Half == 65536

\* Code(n) for a Go int n: the conversion to uint32 keeps the low 32 bits.
ToCode(n) ==
  IF n >= 0
    THEN [hi |-> ((n \div Half) % Half), lo |-> (n % Half)]
    ELSE [hi |-> (Half - 1) - ((((-n) - 1) \div Half) % Half),
          lo |-> (Half - 1) - (((-n) - 1) % Half)]

\* c < minCode || c > maxCode, on the uint32.
CodeInRange(c) == c.hi = 0 /\ c.lo >= minCode /\ c.lo <= maxCode

httpToCode ==
  [s \in {400, 401, 403, 404, 429, 502, 503, 504} |->
     CASE s = 400 -> CodeInternal
       [] s = 401 -> CodeUnauthenticated
       [] s = 403 -> CodePermissionDenied
       [] s = 404 -> CodeUnimplemented
       [] OTHER   -> CodeUnavailable]

StatusOK == 200

----------------------------------------------------------------------------
\* Errors.

Nil == [nil |-> TRUE]

\* errorf(code, format, ...): an *Error with a formatted message.
errorf(code, msg) ==
  [nil |-> FALSE, code |-> ToCode(code), message |-> msg, details |-> <<>>]

\* wrap(code, err)
wrap(code, msg) ==
  [nil |-> FALSE, code |-> code, message |-> msg, details |-> <<>>]

----------------------------------------------------------------------------
\* http.Header

EmptyHeader == [k \in {} |-> <<>>]

Get(h, k) == IF k \in DOMAIN h THEN h[k] ELSE <<>>

Set(h, k, v) == [x \in (DOMAIN h) \cup {k} |-> IF x = k THEN v ELSE h[x]]

CompressionIdentity == <<"identity">>
CompressionGzip == <<"gzip">>
acceptEncodingValue == <<"identity,gzip">>
TypeDefaultGRPC == <<"application/grpc+proto">>
UserAgent == <<"grpc-go-rerpc">>

----------------------------------------------------------------------------
\* Text conversions used by extractError.

DigitVal ==
  [c \in {"0", "1", "2", "3", "4", "5", "6", "7", "8", "9"} |->
     CASE c = "0" -> 0 [] c = "1" -> 1 [] c = "2" -> 2 [] c = "3" -> 3
       [] c = "4" -> 4 [] c = "5" -> 5 [] c = "6" -> 6 [] c = "7" -> 7
       [] c = "8" -> 8 [] OTHER -> 9]

RECURSIVE AtoiDigits(_, _)
AtoiDigits(t, n) ==
  IF t = <<>> THEN [err |-> FALSE, n |-> n]
  ELSE IF Head(t) \notin DOMAIN DigitVal THEN [err |-> TRUE, n |-> 0]
  ELSE AtoiDigits(Tail(t), n * 10 + DigitVal[Head(t)])

\* strconv.Atoi on a text shorter than 19 characters: an optional sign, then
\* decimal digits only.
Atoi(t) ==
  IF t = <<>> THEN [err |-> TRUE, n |-> 0]
  ELSE LET s == IF Head(t) \in {"-", "+"} THEN Tail(t) ELSE t
           r == AtoiDigits(s, 0)
       IN IF s = <<>> THEN [err |-> TRUE, n |-> 0]
          ELSE IF r.err THEN r
          ELSE [err |-> FALSE, n |-> IF Head(t) = "-" THEN -r.n ELSE r.n]

\* The characters the model's payloads are made of, by byte value.
Chr(b) ==
  CASE b = 32 -> " " [] b = 37 -> "%" [] b = 101 -> "e" [] b = 109 -> "m"
    [] b = 110 -> "n" [] b = 111 -> "o" [] b = 112 -> "p" [] b = 120 -> "x"
    [] OTHER -> "?"

HexVal ==
  [c \in (DOMAIN DigitVal) \cup {"a", "b", "c", "d", "e", "f", "A", "B", "C", "D", "E", "F"} |->
     IF c \in DOMAIN DigitVal THEN DigitVal[c]
     ELSE CASE c \in {"a", "A"} -> 10 [] c \in {"b", "B"} -> 11
            [] c \in {"c", "C"} -> 12 [] c \in {"d", "D"} -> 13
            [] c \in {"e", "E"} -> 14 [] OTHER -> 15]

\* percentDecode: every "%" followed by two hexadecimal digits becomes the
\* byte they name; everything else is copied.
RECURSIVE percentDecode(_)
percentDecode(t) ==
  IF t = <<>> THEN <<>>
  ELSE IF Head(t) = "%" /\ Len(t) >= 3
          /\ t[2] \in DOMAIN HexVal /\ t[3] \in DOMAIN HexVal
    THEN <<Chr(HexVal[t[2]] * 16 + HexVal[t[3]])>> \o percentDecode(SubSeq(t, 4, Len(t)))
    ELSE <<Head(t)>> \o percentDecode(Tail(t))

Base64Alphabet ==
  <<"A", "B", "C", "D", "E", "F", "G", "H", "I", "J", "K", "L", "M", "N", "O", "P",
    "Q", "R", "S", "T", "U", "V", "W", "X", "Y", "Z", "a", "b", "c", "d", "e", "f",
    "g", "h", "i", "j", "k", "l", "m", "n", "o", "p", "q", "r", "s", "t", "u", "v",
    "w", "x", "y", "z", "0", "1", "2", "3", "4", "5", "6", "7", "8", "9", "+", "/">>

Sextet(c) == (CHOOSE i \in 1..Len(Base64Alphabet) : Base64Alphabet[i] = c) - 1

IsBase64Char(c) == \E i \in 1..Len(Base64Alphabet) : Base64Alphabet[i] = c

\* The bytes of a run of sextets: 4 sextets give 3 bytes, 3 give 2, 2 give 1.
RECURSIVE SextetsToBytes(_)
SextetsToBytes(t) ==
  IF Len(t) < 2 THEN <<>>
  ELSE LET a == Sextet(t[1])
           b == Sextet(t[2])
           b1 == a * 4 + (b \div 16)
       IN IF Len(t) = 2 THEN <<b1>>
          ELSE LET c == Sextet(t[3])
                   b2 == (b % 16) * 16 + (c \div 4)
               IN IF Len(t) = 3 THEN <<b1, b2>>
                  ELSE <<b1, b2, (c % 4) * 64 + Sextet(t[4])>>
                         \o SextetsToBytes(SubSeq(t, 5, Len(t)))

\* decodeBinaryHeader: base64, standard alphabet, padded or unpadded. A text
\* whose length is a multiple of 4 may end in one or two "="; any other text
\* must not hold "=".
decodeBinaryHeader(t) ==
  LET n == Len(t)
      pad == IF n % 4 # 0 THEN 0
             ELSE IF n >= 2 /\ t[n] = "=" /\ t[n - 1] = "=" THEN 2
             ELSE IF n >= 1 /\ t[n] = "=" THEN 1
             ELSE 0
      body == SubSeq(t, 1, n - pad)
  IN IF (\E i \in 1..Len(body) : ~IsBase64Char(body[i])) \/ Len(body) % 4 = 1
       THEN [err |-> TRUE, bytes |-> <<>>]
       ELSE [err |-> FALSE, bytes |-> SextetsToBytes(body)]

RECURSIVE BytesToText(_)
BytesToText(b) == IF b = <<>> THEN <<>> ELSE <<Chr(Head(b))>> \o BytesToText(Tail(b))

\* proto.Unmarshal into a statuspb.Status: field 1 is the code (varint), field
\* 2 the message (bytes), field 3 a detail (bytes); varints and lengths of the
\* model's payloads fit one byte.
RECURSIVE UnmarshalStatus(_, _)
UnmarshalStatus(b, st) ==
  IF b = <<>> THEN [err |-> FALSE, status |-> st]
  ELSE LET field == Head(b) \div 8
           wire == Head(b) % 8
           bad == [err |-> TRUE, status |-> st]
       IN IF field = 0 \/ wire \notin {0, 2} \/ Len(b) < 2 \/ b[2] >= 128 THEN bad
          ELSE IF wire = 0
            THEN UnmarshalStatus(SubSeq(b, 3, Len(b)),
                                 IF field = 1 THEN [st EXCEPT !.Code = b[2]] ELSE st)
          ELSE IF Len(b) < 2 + b[2] THEN bad
          ELSE LET payload == SubSeq(b, 3, 2 + b[2])
                   rest == SubSeq(b, 3 + b[2], Len(b))
               IN UnmarshalStatus(rest,
                    CASE field = 2 -> [st EXCEPT !.Message = BytesToText(payload)]
                      [] field = 3 -> [st EXCEPT !.Details = Append(@, payload)]
                      [] OTHER -> st)

protoUnmarshal(b) == UnmarshalStatus(b, [Code |-> 0, Message |-> <<>>, Details |-> <<>>])

\* An extraction that ignores the structured status payload.
extractErrorNoOverride(h) ==
  LET codeHeader == Get(h, "Grpc-Status")
      parsed == Atoi(codeHeader)
  IN IF codeHeader = <<>> \/ codeHeader = <<"0">> THEN Nil
     ELSE IF parsed.err
       THEN errorf(CodeUnknown, <<"gRPC protocol error: got invalid error code">>)
     ELSE wrap(ToCode(parsed.n), percentDecode(Get(h, "Grpc-Message")))

\* extractError(h): the error a header or trailer set carries, or nil.
extractError(h) ==
  LET codeHeader == Get(h, "Grpc-Status")
      codeIsSuccess == (codeHeader = <<>> \/ codeHeader = <<"0">>)
      parsed == Atoi(codeHeader)
      message == percentDecode(Get(h, "Grpc-Message"))
      retv == wrap(ToCode(parsed.n), message)
      detailsBinaryEncoded == Get(h, "Grpc-Status-Details-Bin")
      detailsBinary == decodeBinaryHeader(detailsBinaryEncoded)
      status == protoUnmarshal(detailsBinary.bytes)
  IN IF codeIsSuccess THEN Nil
     ELSE IF parsed.err
       THEN errorf(CodeUnknown, <<"gRPC protocol error: got invalid error code">>)
     ELSE IF Len(detailsBinaryEncoded) > 0
       THEN IF detailsBinary.err
              THEN errorf(CodeUnknown, <<"server returned invalid grpc-error-details-bin trailer">>)
            ELSE IF status.err
              THEN errorf(CodeUnknown, <<"server returned invalid protobuf for error details">>)
            ELSE [retv EXCEPT !.details = status.status.Details,
                              !.code = ToCode(status.status.Code),
                              !.message = status.status.Message]
     ELSE retv

----------------------------------------------------------------------------
\* Text forms of a Code (MarshalText, UnmarshalText).

stringToCode ==
  [t \in {<<"OK">>, <<"CANCELLED">>, <<"UNKNOWN">>, <<"INVALID_ARGUMENT">>,
          <<"DEADLINE_EXCEEDED">>, <<"NOT_FOUND">>, <<"ALREADY_EXISTS">>,
          <<"PERMISSION_DENIED">>, <<"RESOURCE_EXHAUSTED">>, <<"FAILED_PRECONDITION">>,
          <<"ABORTED">>, <<"OUT_OF_RANGE">>, <<"UNIMPLEMENTED">>, <<"INTERNAL">>,
          <<"UNAVAILABLE">>, <<"DATA_LOSS">>, <<"UNAUTHENTICATED">>} |->
     CASE t = <<"OK">> -> CodeOK
       [] t = <<"CANCELLED">> -> CodeCanceled
       [] t = <<"UNKNOWN">> -> CodeUnknown
       [] t = <<"INVALID_ARGUMENT">> -> CodeInvalidArgument
       [] t = <<"DEADLINE_EXCEEDED">> -> CodeDeadlineExceeded
       [] t = <<"NOT_FOUND">> -> CodeNotFound
       [] t = <<"ALREADY_EXISTS">> -> CodeAlreadyExists
       [] t = <<"PERMISSION_DENIED">> -> CodePermissionDenied
       [] t = <<"RESOURCE_EXHAUSTED">> -> CodeResourceExhausted
       [] t = <<"FAILED_PRECONDITION">> -> CodeFailedPrecondition
       [] t = <<"ABORTED">> -> CodeAborted
       [] t = <<"OUT_OF_RANGE">> -> CodeOutOfRange
       [] t = <<"UNIMPLEMENTED">> -> CodeUnimplemented
       [] t = <<"INTERNAL">> -> CodeInternal
       [] t = <<"UNAVAILABLE">> -> CodeUnavailable
       [] t = <<"DATA_LOSS">> -> CodeDataLoss
       [] OTHER -> CodeUnauthenticated]

DigitChar == <<"0", "1", "2", "3", "4", "5", "6", "7", "8", "9">>

\* strconv.Itoa for n >= 0.
RECURSIVE Itoa(_)
Itoa(n) == IF n < 10 THEN <<DigitChar[n + 1]>> ELSE Itoa(n \div 10) \o <<DigitChar[(n % 10) + 1]>>

\* The digit loop of strconv.ParseUint(s, 10, 32) on the uint32 n: a character
\* that is no digit is a syntax error, a value above 2^32 - 1 a range error.
RECURSIVE ParseUintDigits(_, _)
ParseUintDigits(t, n) ==
  IF t = <<>> THEN [err |-> FALSE, n |-> n]
  ELSE IF Head(t) \notin DOMAIN DigitVal THEN [err |-> TRUE, n |-> ToCode(0)]
  ELSE LET lo == n.lo * 10 + DigitVal[Head(t)]
           hi == n.hi * 10 + (lo \div Half)
       IN IF hi >= Half THEN [err |-> TRUE, n |-> ToCode(0)]
          ELSE ParseUintDigits(Tail(t), [hi |-> hi, lo |-> lo % Half])

\* strconv.ParseUint(s, 10, 32): digits only, no sign, not empty.
ParseUint(t) ==
  IF t = <<>> THEN [err |-> TRUE, n |-> ToCode(0)] ELSE ParseUintDigits(t, ToCode(0))

\* A range check that looks at the low half of the code only.
MarshalTextLowHalf(c) ==
  IF c.lo < minCode \/ c.lo > maxCode THEN [err |-> TRUE, text |-> <<>>]
  ELSE [err |-> FALSE, text |-> Itoa(c.lo)]

\* Code.MarshalText: the decimal numeral of a code in [minCode, maxCode].
MarshalText(c) ==
  IF ~CodeInRange(c) THEN [err |-> TRUE, text |-> <<>>]
  ELSE [err |-> FALSE, text |-> Itoa(c.hi * Half + c.lo)]

\* A parser whose range check excludes maxCode.
UnmarshalTextExclusiveMax(t) ==
  IF t \in DOMAIN stringToCode THEN [err |-> FALSE, code |-> ToCode(stringToCode[t])]
  ELSE LET r == ParseUint(t)
       IN IF r.err \/ ~CodeInRange(r.n) \/ r.n.lo >= maxCode
            THEN [err |-> TRUE, code |-> ToCode(0)]
            ELSE [err |-> FALSE, code |-> r.n]

\* Code.UnmarshalText: the table of specification strings first, then the
\* decimal numeral of a code in [minCode, maxCode]. On an error the receiver
\* keeps its value (zero here).
UnmarshalText(t) ==
  IF t \in DOMAIN stringToCode THEN [err |-> FALSE, code |-> ToCode(stringToCode[t])]
  ELSE LET r == ParseUint(t)
       IN IF r.err THEN [err |-> TRUE, code |-> ToCode(0)]
          ELSE IF ~CodeInRange(r.n) THEN [err |-> TRUE, code |-> ToCode(0)]
          ELSE [err |-> FALSE, code |-> r.n]

----------------------------------------------------------------------------
\* Call configuration.

zeroCfg == [EnableGzipRequest |-> FALSE, MaxResponseBytes |-> 0, Interceptor |-> "nil"]

\* opt.applyToCall(&cfg): each option sets the one field it is about.
applyToCall(opt, c) ==
  CASE opt.opt = "Gzip" -> [c EXCEPT !.EnableGzipRequest = opt.enable]
    [] opt.opt = "MaxResponseBytes" -> [c EXCEPT !.MaxResponseBytes = opt.bytes]
    [] opt.opt = "Intercept" -> [c EXCEPT !.Interceptor = opt.interceptor]

\* for _, opt := range opts { opt.applyToCall(&cfg) }
RECURSIVE FoldOptions(_, _)
FoldOptions(opts, c) ==
  IF opts = <<>> THEN c ELSE FoldOptions(Tail(opts), applyToCall(Head(opts), c))

\* A specification that compresses every request with gzip.
SpecificationAlwaysGzip(method, c) ==
  [Method |-> method, RequestCompression |-> CompressionGzip]

\* The spec Call builds from the folded configuration.
Specification(method, c) ==
  [Method |-> method,
   RequestCompression |-> IF ~c.EnableGzipRequest THEN CompressionIdentity
                          ELSE CompressionGzip]

\* The request header set Call builds.
RequestHeader(spec) ==
  Set(Set(Set(Set(Set(EmptyHeader,
    "User-Agent", UserAgent),
    "Content-Type", TypeDefaultGRPC),
    "Grpc-Encoding", spec.RequestCompression),
    "Grpc-Accept-Encoding", acceptEncodingValue),
    "Te", <<"trailers">>)

----------------------------------------------------------------------------
\* Contexts and call metadata.

NoMD == [has |-> FALSE]

Background == [hasDeadline |-> FALSE, untilDeadline |-> 0, md |-> NoMD]
\* An allocator that hands out the same map to every caller.
NewHeaderShared(hp) == 1

\* make(http.Header): the address of a fresh map on the heap hp.
NewHeader(hp) == Len(hp) + 1

\* NewCallContext(ctx, spec, req, res): ctx with the call's metadata attached.
NewCallContext(c, spec, req, res) ==
  [c EXCEPT !.md = [has |-> TRUE, Spec |-> spec, Request |-> req, Response |-> res]]

\* What the function cfg.Interceptor.WrapCall(next) returns does when Call
\* invokes it with context c: whether it invokes next, the context it hands
\* to next, and the error it returns when it does not.
WrapCall(interceptor, c) ==
  CASE interceptor \in {"nil", "pass"} -> [next |-> TRUE, ctx |-> c, err |-> Nil]
    [] interceptor = "strip" -> [next |-> TRUE, ctx |-> Background, err |-> Nil]
    [] interceptor = "short" ->
         [next |-> FALSE, ctx |-> c,
          err |-> [nil |-> FALSE, code |-> ToCode(CodeFailedPrecondition),
                   message |-> <<"rejected by interceptor">>, details |-> <<>>]]

\* A context handed on without the call's metadata.
derivedContextBare(c, spec, req, res) == c

\* The context Call derives for the call and hands to next.
derivedContext(c, spec, req, res) == NewCallContext(c, spec, req, res)

\* The terminal function wrapped a second time.
wrapCountTwice(c) == IF c.Interceptor # "nil" THEN 2 ELSE 0

\* How often Call wraps the terminal function: once when an interceptor is
\* configured.
wrapCount(c) == IF c.Interceptor # "nil" THEN 1 ELSE 0

\* An error interface value that holds a nil *Error.
TypedNil == [nil |-> FALSE, holds |-> "nil *Error"]

\* A terminal function that returns the *Error of Client.call as it is.
unaryCallDirect(err) == IF err.nil THEN TypedNil ELSE err

\* The terminal function next: the *Error of Client.call as an error, a nil
\* *Error as the nil error.
unaryCall(err) == IF ~err.nil THEN err ELSE Nil

----------------------------------------------------------------------------
\* The terminal function, up to the transport call.

\* The most digits a Grpc-Timeout value may hold.
maxTimeoutDigits == 8

\* encodeTimeout(d): the remaining duration in the model's unit; a duration
\* that is not positive encodes as "0n", one with too many digits fails.
encodeTimeout(d) ==
  IF d <= 0 THEN [err |-> FALSE, enc |-> <<"0", "n">>]
  ELSE [err |-> Len(Itoa(d)) > maxTimeoutDigits, enc |-> Itoa(d) \o <<"S">>]
\* A deadline check that lets a remaining duration of exactly zero through.
noTimeLeftStrict(untilDeadline) == untilDeadline < 0

\* untilDeadline <= 0
noTimeLeft(untilDeadline) == untilDeadline <= 0

NoRequest == [sent |-> FALSE]

\* Client.call before c.doer.Do: the error it returns early (r.returned) or
\* the request it submits, and the heap with Grpc-Timeout set.
callBeforeDo(cl, c, hp, marshalFails) ==
  LET md == c.md
      early(e) == [returned |-> TRUE, err |-> e, heap |-> hp, request |-> NoRequest]
      timeout == encodeTimeout(c.untilDeadline)
      hp1 == IF c.hasDeadline /\ ~timeout.err
               THEN [hp EXCEPT ![md.Request] = Set(@, "Grpc-Timeout", timeout.enc)]
               ELSE hp
  IN IF ~md.has
       THEN early(errorf(CodeInternal, <<"no call metadata available on context">>))
     ELSE IF c.hasDeadline /\ noTimeLeft(c.untilDeadline)
       THEN early(errorf(CodeDeadlineExceeded, <<"no time to make RPC">>))
     ELSE IF marshalFails
       THEN [returned |-> TRUE,
             err |-> errorf(CodeInvalidArgument, <<"can't marshal request as protobuf">>),
             heap |-> hp1, request |-> NoRequest]
     ELSE [returned |-> FALSE, err |-> Nil, heap |-> hp1,
           request |-> [sent |-> TRUE, Method |-> "POST", URL |-> cl.url,
                        Header |-> md.Request,
                        Compression |-> md.Spec.RequestCompression]]

----------------------------------------------------------------------------
\* The terminal function, from the transport's answer on.
\* A transport error mapping that tests the deadline before the cancellation.
transportErrorDeadlineFirst(err) ==
  IF err.deadline THEN errorf(CodeDeadlineExceeded, <<"context deadline exceeded">>)
  ELSE IF err.canceled THEN errorf(CodeCanceled, <<"context canceled">>)
  ELSE wrap(ToCode(CodeUnknown), err.message)

\* The error returned when Doer.Do fails with err.
transportError(err) ==
  IF err.canceled THEN errorf(CodeCanceled, <<"context canceled">>)
  ELSE IF err.deadline THEN errorf(CodeDeadlineExceeded, <<"context deadline exceeded">>)
  ELSE wrap(ToCode(CodeUnknown), err.message)
\* A status mapping whose default is Internal.
httpStatusCodeDefaultInternal(status) ==
  IF status \in DOMAIN httpToCode THEN httpToCode[status] ELSE CodeInternal

\* The code of a response whose status is not 200.
httpStatusCode(status) ==
  IF status \in DOMAIN httpToCode THEN httpToCode[status] ELSE CodeUnknown

\* response.Header.Get("Grpc-Encoding"), identity when empty.
responseCompression(h) ==
  IF Get(h, "Grpc-Encoding") = <<>> THEN CompressionIdentity ELSE Get(h, "Grpc-Encoding")
\* An encoding check that accepts every encoding.
acceptedCompressionAny(compression) == TRUE


acceptedCompression(compression) ==
  compression = CompressionIdentity \/ compression = CompressionGzip
\* A response check that leaves the header error to the trailers.
handleResponseNoHeaderError(r) ==
  LET early(e) == [returned |-> TRUE, err |-> e]
      compression == responseCompression(r.Header)
  IN IF r.StatusCode # StatusOK
       THEN early(errorf(httpStatusCode(r.StatusCode),
                         <<"HTTP status ">> \o Itoa(r.StatusCode)))
     ELSE IF ~acceptedCompression(compression)
       THEN early(errorf(CodeInternal, <<"unknown compression ">> \o compression))
     ELSE [returned |-> FALSE, err |-> Nil]

\* Client.call from the status check to the header error check: the error it
\* returns early, or returned = FALSE when it goes on to read the body.
handleResponse(r) ==
  LET early(e) == [returned |-> TRUE, err |-> e]
      compression == responseCompression(r.Header)
      headerErr == extractError(r.Header)
  IN IF r.StatusCode # StatusOK
       THEN early(errorf(httpStatusCode(r.StatusCode),
                         <<"HTTP status ">> \o Itoa(r.StatusCode)))
     ELSE IF ~acceptedCompression(compression)
       THEN early(errorf(CodeInternal, <<"unknown compression ">> \o compression))
     ELSE IF ~headerErr.nil THEN early(headerErr)
     ELSE [returned |-> FALSE, err |-> Nil]
\* A resolution in which the unmarshal error wins over the trailer error.
resolveUnmarshalFirst(serverErr, unmarshalFailed) ==
  IF unmarshalFailed
    THEN errorf(CodeUnknown, <<"server returned invalid protobuf">>)
  ELSE IF ~serverErr.nil THEN serverErr
  ELSE Nil

\* The resolution of the trailer error against the unmarshal error.
resolve(serverErr, unmarshalFailed) ==
  IF ~serverErr.nil THEN serverErr
  ELSE IF unmarshalFailed
    THEN errorf(CodeUnknown, <<"server returned invalid protobuf">>)
  ELSE Nil
\* Deferred calls registered in the opposite order: close, then drain.
deferredCallsCloseFirst == <<"Close", "Copy">>

\* The deferred calls of Client.call, in the order they run on return.
deferredCalls == <<"Copy", "Close">>

\* The steps of Client.call on the body, in order.
readBodySteps == <<"unmarshalLPM", "Copy", "extractError(Trailer)">>

NoResponse == [got |-> FALSE, failed |-> FALSE]

----------------------------------------------------------------------------
\* The inputs: what callers pass to Call and what the transport answers.

Gzip(b) == [opt |-> "Gzip", enable |-> b]
Intercept(i) == [opt |-> "Intercept", interceptor |-> i]

\* A header or trailer set holding the non-empty ones of the four values.
MkHeader(enc, st, msg, det) ==
  LET all == [k \in {"Grpc-Encoding", "Grpc-Status", "Grpc-Message", "Grpc-Status-Details-Bin"} |->
                CASE k = "Grpc-Encoding" -> enc
                  [] k = "Grpc-Status" -> st
                  [] k = "Grpc-Message" -> msg
                  [] OTHER -> det]
  IN [k \in {x \in DOMAIN all : all[x] # <<>>} |-> all[k]]

StatusTexts ==
  {<<>>, <<"0">>, <<"0", "0">>, <<"5">>, <<"1", "0">>, <<"1", "7">>,
   <<"-", "1">>, <<"+", "5">>, <<"x">>}

MessageTexts == {<<>>, <<"n", "o", "%", "2", "0", "p", "e">>}

\* Absent; not base64; base64 of no status message; the statuses
\* {code 5, message "m", one detail}, {code 17} and {message "x"}.
DetailsTexts ==
  {<<>>, <<"!", "!">>, <<"A", "A", "=", "=">>,
   <<"C", "A", "U", "S", "A", "W", "0", "a", "A", "X", "g", "=">>,
   <<"C", "B", "E", "=">>, <<"E", "g", "F", "4">>}

Trailers ==
  {MkHeader(<<>>, st, msg, det) : st \in StatusTexts, msg \in MessageTexts, det \in DetailsTexts}

EncodingTexts == {<<>>, CompressionIdentity, CompressionGzip, <<"brotli">>}

ResponseHeaders ==
  {MkHeader(enc, x[1], x[2], x[3]) :
     enc \in EncodingTexts,
     x \in {<< <<>>, <<>>, <<>> >>,
            << <<"0">>, <<"n", "o", "%", "2", "0", "p", "e">>, <<>> >>,
            << <<>>, <<>>, <<"C", "B", "E", "=">> >>,
            << <<"7">>, <<"n", "o", "%", "2", "0", "p", "e">>, <<>> >>,
            << <<"x">>, <<>>, <<>> >>,
            << <<"1", "7">>, <<>>, <<>> >>,
            << <<"7">>, <<>>, <<"C", "A", "U", "S", "A", "W", "0", "a", "A", "X", "g", "=">> >>,
            << <<"5">>, <<>>, <<"!", "!">> >>}}

HTTPStatuses == {200, 400, 401, 403, 404, 418, 429, 502, 503, 504}

TransportErrors ==
  {[canceled |-> c, deadline |-> d, message |-> <<"dial tcp: connection refused">>] :
     c \in BOOLEAN, d \in BOOLEAN}

\* A body read either ends (the message parses or not, trailers follow) or
\* is cut short by the context (no trailers arrive).
Bodies ==
  {[read |-> r, Trailer |-> t] : r \in {"ok", "invalid"}, t \in Trailers}
    \cup {[read |-> r, Trailer |-> EmptyHeader] : r \in {"canceled", "deadline"}}

FullDoer ==
  [errors |-> TransportErrors,
   responses |-> {[StatusCode |-> s, Header |-> h] : s \in HTTPStatuses, h \in ResponseHeaders},
   bodies |-> Bodies]

Contexts ==
  {Background} \cup
  {[hasDeadline |-> TRUE, untilDeadline |-> d, md |-> NoMD] : d \in (-MaxRemaining)..MaxRemaining}

FullWorkload ==
  [goroutines |-> {1},
   options |-> {<<>>, <<Gzip(FALSE)>>, <<Intercept("pass")>>,
                <<Gzip(FALSE), Intercept("short")>>, <<Intercept("strip")>>},
   contexts |-> Contexts,
   marshalFails |-> BOOLEAN]

\* Concurrent callers of one Client: few inputs, several goroutines.
ConcDoer ==
  [errors |-> {[canceled |-> TRUE, deadline |-> FALSE, message |-> <<"context canceled">>]},
   responses |-> {[StatusCode |-> 200, Header |-> MkHeader(CompressionGzip, <<>>, <<>>, <<>>)],
                  [StatusCode |-> 200, Header |-> MkHeader(<<>>, <<"7">>, <<"n", "o">>, <<>>)]},
   bodies |-> {[read |-> "ok", Trailer |-> EmptyHeader]}]

ConcWorkload ==
  [goroutines |-> 1..MaxCalls,
   options |-> {<<>>, <<Gzip(FALSE)>>},
   contexts |-> {Background, [hasDeadline |-> TRUE, untilDeadline |-> 1, md |-> NoMD]},
   marshalFails |-> {FALSE}]

----------------------------------------------------------------------------
\* The state machine.

\* NewClient(doer, url, method, opts...)
NewClient(doer, url, method, opts) ==
  [doer |-> doer, url |-> url, method |-> method, opts |-> opts]

InitCalls ==
  /\ heap = <<>>
  /\ pc = [g \in workload.goroutines |-> "idle"]
  /\ cfg = [g \in workload.goroutines |-> zeroCfg]
  /\ ctx = [g \in workload.goroutines |-> Background]
  /\ request = [g \in workload.goroutines |-> NoRequest]
  /\ response = [g \in workload.goroutines |-> NoResponse]
  /\ called = [g \in workload.goroutines |-> <<>>]
  /\ trace = [g \in workload.goroutines |-> <<>>]
  /\ ret = [g \in workload.goroutines |-> Nil]
  /\ wraps = [g \in workload.goroutines |-> 0]

\* The arguments the clients of the model are constructed with.
ClientURL == <<"https://api.acme.com/acme.foo.v1.Foo/Bar">>
ClientMethod == <<"acme.foo.v1.Foo.Bar">>
ClientOptions == <<Gzip(TRUE)>>

\* No conversion of a Code has run.
NoConversion ==
  [op |-> "none", kind |-> "none", n |-> 0, code |-> ToCode(0), text |-> <<>>,
   err |-> FALSE, out |-> ToCode(0)]

Init ==
  /\ client = NewClient(FullDoer, ClientURL, ClientMethod, ClientOptions)
  /\ workload = FullWorkload
  /\ InitCalls
  /\ codec = NoConversion

ConcInit ==
  /\ client = NewClient(ConcDoer, ClientURL, ClientMethod, ClientOptions)
  /\ workload = ConcWorkload
  /\ InitCalls
  /\ codec = NoConversion

\* The heap hp with v stored at address a.
Store(hp, a, v) == IF a > Len(hp) THEN Append(hp, v) ELSE [hp EXCEPT ![a] = v]

\* Client.Call, through the interceptor and the terminal function up to the
\* point where the request is handed to the transport.
Call(g) ==
  /\ g \in workload.goroutines
  /\ pc[g] = "idle"
  /\ \E opts \in workload.options, c \in workload.contexts,
        marshalFails \in workload.marshalFails :
       LET folded == FoldOptions(opts, FoldOptions(client.opts, zeroCfg))
           spec == Specification(client.method, folded)
           reqHeader == NewHeader(heap)
           heap1 == Store(heap, reqHeader, RequestHeader(spec))
           resHeader == NewHeader(heap1)
           heap2 == Store(heap1, resHeader, EmptyHeader)
           callCtx == derivedContext(c, spec, reqHeader, resHeader)
           wrapped == WrapCall(folded.Interceptor, callCtx)
           before == callBeforeDo(client, wrapped.ctx, heap2, marshalFails)
       IN /\ cfg' = [cfg EXCEPT ![g] = folded]
          /\ ctx' = [ctx EXCEPT ![g] = callCtx]
          /\ wraps' = [wraps EXCEPT ![g] = wrapCount(folded)]
          /\ IF ~wrapped.next
               THEN /\ heap' = heap2
                    /\ pc' = [pc EXCEPT ![g] = "done"]
                    /\ ret' = [ret EXCEPT ![g] = wrapped.err]
                    /\ UNCHANGED <<called, request, trace>>
               ELSE /\ heap' = before.heap
                    /\ called' = [called EXCEPT ![g] = Append(@, wrapped.ctx)]
                    /\ request' = [request EXCEPT ![g] = before.request]
                    /\ ret' = [ret EXCEPT ![g] = IF before.returned THEN unaryCall(before.err) ELSE Nil]
                    /\ pc' = [pc EXCEPT ![g] = IF before.returned THEN "done" ELSE "Do"]
                    /\ trace' = [trace EXCEPT ![g] = IF before.returned THEN @ ELSE Append(@, "Do")]
  /\ UNCHANGED <<client, workload, response, codec>>

\* Doer.Do returns an error.
DoError(g) ==
  /\ g \in workload.goroutines
  /\ pc[g] = "Do"
  /\ \E err \in client.doer.errors :
       /\ response' = [response EXCEPT ![g] = [got |-> FALSE, failed |-> TRUE, err |-> err]]
       /\ ret' = [ret EXCEPT ![g] = unaryCall(transportError(err))]
  /\ pc' = [pc EXCEPT ![g] = "done"]
  /\ UNCHANGED <<client, workload, heap, cfg, ctx, request, called, trace, wraps, codec>>

\* Doer.Do returns a response: the response headers are copied into the call
\* metadata, then status, encoding and header error are checked.
DoResponse(g) ==
  /\ g \in workload.goroutines
  /\ pc[g] = "Do"
  /\ \E r \in client.doer.responses :
       LET md == called[g][1].md
           h == handleResponse(r)
       IN /\ heap' = [heap EXCEPT ![md.Response] = r.Header]
          /\ response' = [response EXCEPT ![g] =
               [got |-> TRUE, failed |-> FALSE, StatusCode |-> r.StatusCode, Header |-> r.Header,
                read |-> "unread", Trailer |-> EmptyHeader]]
          /\ IF h.returned
               THEN /\ ret' = [ret EXCEPT ![g] = unaryCall(h.err)]
                    /\ pc' = [pc EXCEPT ![g] = "done"]
                    /\ trace' = [trace EXCEPT ![g] = @ \o deferredCalls]
               ELSE /\ pc' = [pc EXCEPT ![g] = "Body"]
                    /\ UNCHANGED <<ret, trace>>
  /\ UNCHANGED <<client, workload, cfg, ctx, request, called, wraps, codec>>

\* The body is read into the response message and drained, the trailers are
\* checked, and the call returns.
ReadBody(g) ==
  /\ g \in workload.goroutines
  /\ pc[g] = "Body"
  /\ \E b \in client.doer.bodies :
       /\ response' = [response EXCEPT ![g].read = b.read, ![g].Trailer = b.Trailer]
       /\ ret' = [ret EXCEPT ![g] = unaryCall(resolve(extractError(b.Trailer), b.read # "ok"))]
  /\ trace' = [trace EXCEPT ![g] = @ \o readBodySteps \o deferredCalls]
  /\ pc' = [pc EXCEPT ![g] = "done"]
  /\ UNCHANGED <<client, workload, heap, cfg, ctx, request, called, wraps, codec>>

Next ==
  \E g \in 1..MaxCalls :
    \/ Call(g)
    \/ DoError(g)
    \/ DoResponse(g)
    \/ ReadBody(g)

\* The inputs of the text conversions.
CodeInputs ==
  {ToCode(n) : n \in 0..MaxCodeIn}
    \cup {[hi |-> 1, lo |-> 0], [hi |-> 1, lo |-> 5], [hi |-> Half - 1, lo |-> Half - 1]}

\* Decimal numerals of small integers, numerals of integers from 2^16 up, and
\* texts that are no decimal numeral.
TextInputs ==
  {[kind |-> "numeral", n |-> n, text |-> IF n < 0 THEN <<"-">> \o Itoa(-n) ELSE Itoa(n)] :
     n \in (-MaxCodeIn)..MaxCodeIn}
  \cup {[kind |-> "big", n |-> 0, text |-> t] :
     t \in {<<"6", "5", "5", "3", "6">>, <<"6", "5", "5", "4", "1">>,
            <<"4", "2", "9", "4", "9", "6", "7", "2", "9", "5">>,
            <<"4", "2", "9", "4", "9", "6", "7", "2", "9", "6">>,
            <<"4", "2", "9", "4", "9", "6", "7", "3", "0", "1">>,
            <<"9", "9", "9", "9", "9", "9", "9", "9", "9", "9", "9", "9">>}}
  \cup {[kind |-> "word", n |-> 0, text |-> t] :
     t \in (DOMAIN stringToCode)
           \cup {<<>>, <<"CANCELED">>, <<"ok">>, <<"Unknown">>, <<"+", "5">>,
                 <<"1", "_", "0">>, <<"0", "x", "5">>, <<" ", "5">>, <<"5", " ">>,
                 <<"5", ".", "0">>}}

IdleWorkload == [FullWorkload EXCEPT !.goroutines = {}]

CodecInit ==
  /\ client = NewClient(FullDoer, ClientURL, ClientMethod, ClientOptions)
  /\ workload = IdleWorkload
  /\ InitCalls
  /\ codec = NoConversion

\* c.MarshalText() on a code.
MarshalCode ==
  /\ codec.op = "none"
  /\ \E c \in CodeInputs :
       codec' = [op |-> "MarshalText", kind |-> "code", n |-> 0, code |-> c,
                 text |-> MarshalText(c).text, err |-> MarshalText(c).err,
                 out |-> ToCode(0)]
  /\ UNCHANGED <<client, workload, heap, pc, cfg, ctx, request, response, called, trace,
                 ret, wraps>>

\* c.UnmarshalText(b) on the text MarshalText produced.
ParseMarshalled ==
  /\ codec.op = "MarshalText" /\ ~codec.err
  /\ codec' = [codec EXCEPT !.op = "RoundTrip",
                            !.err = UnmarshalText(codec.text).err,
                            !.out = UnmarshalText(codec.text).code]
  /\ UNCHANGED <<client, workload, heap, pc, cfg, ctx, request, response, called, trace,
                 ret, wraps>>

\* c.UnmarshalText(b) on a text.
ParseText ==
  /\ codec.op = "none"
  /\ \E in \in TextInputs :
       codec' = [op |-> "UnmarshalText", kind |-> in.kind, n |-> in.n, code |-> ToCode(0),
                 text |-> in.text, err |-> UnmarshalText(in.text).err,
                 out |-> UnmarshalText(in.text).code]
  /\ UNCHANGED <<client, workload, heap, pc, cfg, ctx, request, response, called, trace,
                 ret, wraps>>

CodecNext == MarshalCode \/ ParseMarshalled \/ ParseText

Spec == Init /\ [][Next]_vars

CodecSpec == CodecInit /\ [][CodecNext]_vars

ConcSpec == ConcInit /\ [][Next]_vars

----------------------------------------------------------------------------
\* Properties.

Has(seq, x) == \E i \in 1..Len(seq) : seq[i] = x

Returned(g) == g \in workload.goroutines /\ pc[g] = "done"

\* The goroutine's transport answered with a response.
Responded(g) == g \in workload.goroutines /\ response[g].got

SuccessStatus(h) == Get(h, "Grpc-Status") \in {<<>>, <<"0">>}

AcceptedEncoding(h) == Get(h, "Grpc-Encoding") \in {<<>>, <<"identity">>, <<"gzip">>}

\* C1: for a 200 response with an accepted Grpc-Encoding and no error in its
\* headers, the call returns the trailer error when the trailers carry a
\* non-success Grpc-Status (whether or not the body unmarshalled), else an
\* Unknown error when the body failed to unmarshal, else nil.
C1_TrailerThenUnmarshalThenNil ==
  \A g \in 1..MaxCalls :
    (Returned(g) /\ Responded(g) /\ response[g].StatusCode = 200
       /\ AcceptedEncoding(response[g].Header) /\ SuccessStatus(response[g].Header))
    => IF ~SuccessStatus(response[g].Trailer)
         THEN ~ret[g].nil /\ ret[g] = extractError(response[g].Trailer)
       ELSE IF response[g].read # "ok"
         THEN ~ret[g].nil /\ ret[g].code = ToCode(CodeUnknown)
       ELSE ret[g].nil

\* Scenario E: the body fails to unmarshal, the trailer says 10, Aborted wins.
C1_Witness ==
  \E g \in 1..MaxCalls :
    /\ Returned(g) /\ Responded(g) /\ response[g].StatusCode = 200
    /\ response[g].read = "invalid"
    /\ Get(response[g].Trailer, "Grpc-Status") = <<"1", "0">>
    /\ Get(response[g].Trailer, "Grpc-Status-Details-Bin") = <<>>
    /\ ~ret[g].nil /\ ret[g].code = ToCode(CodeAborted)

\* The code the HTTP status table gives, as the claim lists it.
TableCode(status) ==
  CASE status = 400 -> CodeInternal
    [] status = 401 -> CodeUnauthenticated
    [] status = 403 -> CodePermissionDenied
    [] status = 404 -> CodeUnimplemented
    [] status \in {429, 502, 503, 504} -> CodeUnavailable
    [] OTHER -> CodeUnknown

\* C2: a response whose HTTP status is not 200 fails the call with the code
\* of the HTTP status table (Unknown by default), and neither the unmarshal
\* step nor the trailer extraction step runs.
C2_Non200MapsThroughTable ==
  \A g \in 1..MaxCalls :
    (Responded(g) /\ response[g].StatusCode # 200)
    => /\ pc[g] = "done"
       /\ ~ret[g].nil
       /\ ret[g].code = ToCode(TableCode(response[g].StatusCode))
       /\ ~Has(trace[g], "unmarshalLPM")
       /\ ~Has(trace[g], "extractError(Trailer)")
       /\ response[g].read = "unread"

\* A 418 whose headers even carry a Grpc-Status comes back as Unknown.
C2_Witness ==
  \E g \in 1..MaxCalls :
    /\ Returned(g) /\ Responded(g) /\ response[g].StatusCode = 418
    /\ Get(response[g].Header, "Grpc-Status") = <<"7">>
    /\ ret[g].code = ToCode(CodeUnknown)

\* C3: when the context the terminal function receives carries the call
\* metadata and a deadline with no time left (remaining <= 0), the call
\* returns DeadlineExceeded and the transport is never invoked.
C3_ExpiredDeadlineNoTransport ==
  \A g \in 1..MaxCalls :
    (g \in workload.goroutines /\ called[g] # <<>> /\ called[g][1].md.has
       /\ called[g][1].hasDeadline /\ called[g][1].untilDeadline <= 0)
    => /\ pc[g] = "done"
       /\ ~ret[g].nil
       /\ ret[g].code = ToCode(CodeDeadlineExceeded)
       /\ ~Has(trace[g], "Do")
       /\ ~request[g].sent
       /\ ~response[g].got /\ ~response[g].failed

C3_Witness ==
  \E g \in 1..MaxCalls :
    /\ Returned(g) /\ called[g] # <<>> /\ called[g][1].md.has
    /\ called[g][1].hasDeadline /\ called[g][1].untilDeadline = 0
    /\ ret[g].code = ToCode(CodeDeadlineExceeded)
    /\ trace[g] = <<>>

\* C4: a 200 response with an accepted encoding and a non-success Grpc-Status
\* in its headers makes the call return the header error at once: the body is
\* not unmarshalled and the trailers are not consulted.
C4_HeaderErrorReturnsAtOnce ==
  \A g \in 1..MaxCalls :
    (Responded(g) /\ response[g].StatusCode = 200
       /\ AcceptedEncoding(response[g].Header) /\ ~SuccessStatus(response[g].Header))
    => /\ pc[g] = "done"
       /\ ~ret[g].nil
       /\ ret[g] = extractError(response[g].Header)
       /\ (Get(response[g].Header, "Grpc-Status") = <<"7">>
             /\ Get(response[g].Header, "Grpc-Status-Details-Bin") = <<>>
           => ret[g].code = ToCode(CodePermissionDenied))
       /\ ~Has(trace[g], "unmarshalLPM")
       /\ ~Has(trace[g], "extractError(Trailer)")
       /\ response[g].read = "unread"

\* Scenario B: Grpc-Status 7 in the headers, PermissionDenied, body not read.
C4_Witness ==
  \E g \in 1..MaxCalls :
    /\ Returned(g) /\ Responded(g) /\ response[g].StatusCode = 200
    /\ Get(response[g].Header, "Grpc-Status") = <<"7">>
    /\ Get(response[g].Header, "Grpc-Status-Details-Bin") = <<>>
    /\ ret[g].code = ToCode(CodePermissionDenied)
    /\ ret[g].message = <<"n", "o", " ", "p", "e">>
    /\ trace[g] = <<"Do", "Copy", "Close">>

\* C5: a 200 response with a Grpc-Encoding that is present and neither
\* identity nor gzip fails with Internal, also when its headers carry a
\* non-success Grpc-Status; a 200 response without Grpc-Encoding does not fail
\* on its encoding: with no header error the call goes on to read the body.
C5_UnknownEncodingIsInternal ==
  \A g \in 1..MaxCalls :
    /\ (Responded(g) /\ response[g].StatusCode = 200 /\ ~AcceptedEncoding(response[g].Header))
       => /\ pc[g] = "done"
          /\ ~ret[g].nil
          /\ ret[g].code = ToCode(CodeInternal)
          /\ ~Has(trace[g], "unmarshalLPM")
    /\ (Responded(g) /\ response[g].StatusCode = 200
          /\ Get(response[g].Header, "Grpc-Encoding") = <<>> /\ SuccessStatus(response[g].Header))
       => (pc[g] = "Body" \/ Has(trace[g], "unmarshalLPM"))

\* brotli together with Grpc-Status 7 in the headers: Internal.
C5_Witness ==
  \E g \in 1..MaxCalls :
    /\ Returned(g) /\ Responded(g) /\ response[g].StatusCode = 200
    /\ Get(response[g].Header, "Grpc-Encoding") = <<"brotli">>
    /\ Get(response[g].Header, "Grpc-Status") = <<"7">>
    /\ ret[g].code = ToCode(CodeInternal)

\* C6: when the transport returns an error, the call returns Canceled if the
\* cause is context cancellation, else DeadlineExceeded if the cause is the
\* context deadline, else Unknown with the transport error's message; no
\* response handling step runs and the response header set of the call
\* metadata stays empty.
C6_TransportErrorMapping ==
  \A g \in 1..MaxCalls :
    (g \in workload.goroutines /\ response[g].failed)
    => /\ pc[g] = "done"
       /\ ~ret[g].nil
       /\ ret[g].code = ToCode(IF response[g].err.canceled THEN CodeCanceled
                               ELSE IF response[g].err.deadline THEN CodeDeadlineExceeded
                               ELSE CodeUnknown)
       /\ (~response[g].err.canceled /\ ~response[g].err.deadline
           => ret[g].message = response[g].err.message)
       /\ trace[g] = <<"Do">>
       /\ heap[ctx[g].md.Response] = EmptyHeader

\* An error that is both a cancellation and a deadline comes back Canceled.
C6_Witness ==
  \E g \in 1..MaxCalls :
    /\ Returned(g) /\ response[g].failed
    /\ response[g].err.canceled /\ response[g].err.deadline
    /\ ret[g].code = ToCode(CodeCanceled)

\* C7: every non-nil error the call returns carries a code in [0, 16],
\* whatever Grpc-Status and structured status payload the server sends.
C7_CodeInClosedRange ==
  \A g \in 1..MaxCalls :
    (Returned(g) /\ ~ret[g].nil) => CodeInRange(ret[g].code)

\* C8: when the context is cancelled, or its deadline expires, while the call
\* reads the body of a 200 response, the call returns Canceled, or
\* DeadlineExceeded, respectively.
C8_BodyReadCancellation ==
  \A g \in 1..MaxCalls :
    (Returned(g) /\ Responded(g))
    => /\ (response[g].read = "canceled" => ret[g].code = ToCode(CodeCanceled))
       /\ (response[g].read = "deadline" => ret[g].code = ToCode(CodeDeadlineExceeded))

\* C9: once the transport has returned a response, the call returns with the
\* body drained and then closed: the last two steps are the drain and the
\* close, in that order, and nothing touches the body after the close.
C9_DrainThenClose ==
  \A g \in 1..MaxCalls :
    (Returned(g) /\ Responded(g))
    => LET t == trace[g]
       IN /\ Len(t) >= 2
          /\ t[Len(t)] = "Close"
          /\ t[Len(t) - 1] = "Copy"
          /\ \A i \in 1..(Len(t) - 1) : t[i] # "Close"

\* An early return (non-200) still drains and closes.
C9_Witness ==
  \E g \in 1..MaxCalls :
    /\ Returned(g) /\ Responded(g) /\ response[g].StatusCode = 503
    /\ trace[g] = <<"Do", "Copy", "Close">>

Started(g) == g \in workload.goroutines /\ pc[g] # "idle"

\* The maps a call's metadata points to.
OwnMaps(g) == {ctx[g].md.Request, ctx[g].md.Response}

\* C10: with several goroutines calling the same Client concurrently, every
\* call has its own request and response header maps; the Grpc-Encoding and
\* Grpc-Timeout in its request headers come from its own configuration and
\* deadline, its response header set holds the headers of its own response
\* (and nothing before that), and the Client's fields keep their values.
C10_CallsAreIsolated ==
  /\ client = [doer |-> ConcDoer, url |-> ClientURL, method |-> ClientMethod,
               opts |-> ClientOptions]
  /\ \A g \in 1..MaxCalls :
       Started(g) =>
         /\ ctx[g].md.Request # ctx[g].md.Response
         /\ \A o \in 1..MaxCalls : (Started(o) /\ o # g) => OwnMaps(g) \cap OwnMaps(o) = {}
         /\ Get(heap[ctx[g].md.Request], "Grpc-Encoding")
              = (IF cfg[g].EnableGzipRequest THEN <<"gzip">> ELSE <<"identity">>)
         /\ ctx[g].md.Spec.RequestCompression = Get(heap[ctx[g].md.Request], "Grpc-Encoding")
         /\ Get(heap[ctx[g].md.Request], "Grpc-Timeout")
              = (IF ctx[g].hasDeadline /\ ctx[g].untilDeadline > 0
                   THEN Itoa(ctx[g].untilDeadline) \o <<"S">> ELSE <<>>)
         /\ heap[ctx[g].md.Response]
              = (IF response[g].got THEN response[g].Header ELSE EmptyHeader)

\* Two calls in flight at once, with different configurations, deadlines and
\* response headers.
C10_Witness ==
  /\ Started(1) /\ Started(2)
  /\ pc[1] = "Body" /\ pc[2] = "Do"
  /\ cfg[1].EnableGzipRequest /\ ~cfg[2].EnableGzipRequest
  /\ ctx[1].hasDeadline /\ ~ctx[2].hasDeadline
  /\ Get(heap[ctx[1].md.Response], "Grpc-Encoding") = <<"gzip">>
  /\ heap[ctx[2].md.Response] = EmptyHeader

\* The terminal call succeeded: HTTP 200, an accepted encoding, no header
\* error, a body that unmarshalled and no trailer error.
Succeeded(g) ==
  /\ Responded(g) /\ response[g].StatusCode = 200
  /\ AcceptedEncoding(response[g].Header) /\ SuccessStatus(response[g].Header)
  /\ response[g].read = "ok" /\ SuccessStatus(response[g].Trailer)

\* C11: with no interceptor configured, Call returns nil exactly when the
\* terminal call succeeded, and a non-nil error it returns is a protocol
\* error with a code, never an error value holding a nil protocol error.
C11_NilIffSucceeded ==
  \A g \in 1..MaxCalls :
    (Returned(g) /\ cfg[g].Interceptor = "nil")
    => /\ (ret[g].nil <=> Succeeded(g))
       /\ (~ret[g].nil => "code" \in DOMAIN ret[g])

\* Scenario A: HTTP 200, a gzip body that unmarshals, no trailer error.
C11_Witness ==
  \E g \in 1..MaxCalls :
    /\ Returned(g) /\ cfg[g].Interceptor = "nil" /\ Succeeded(g)
    /\ Get(response[g].Header, "Grpc-Encoding") = <<"gzip">>
    /\ ret[g] = Nil

\* The specification string of each code, by code + 1.
SpecString ==
  <<<<"OK">>, <<"CANCELLED">>, <<"UNKNOWN">>, <<"INVALID_ARGUMENT">>,
    <<"DEADLINE_EXCEEDED">>, <<"NOT_FOUND">>, <<"ALREADY_EXISTS">>,
    <<"PERMISSION_DENIED">>, <<"RESOURCE_EXHAUSTED">>, <<"FAILED_PRECONDITION">>,
    <<"ABORTED">>, <<"OUT_OF_RANGE">>, <<"UNIMPLEMENTED">>, <<"INTERNAL">>,
    <<"UNAVAILABLE">>, <<"DATA_LOSS">>, <<"UNAUTHENTICATED">>>>

SmallCode(c) == c.hi = 0 /\ c.lo \in 0..16

\* C12: every code in 0..16 serializes, and parsing the text it serializes to
\* gives the code back; parsing the specification string of a code gives that
\* code, so CANCELLED parses to 1.
C12_ParseInvertsSerialize ==
  /\ (codec.op = "MarshalText" /\ SmallCode(codec.code)) => ~codec.err
  /\ codec.op = "RoundTrip" => (~codec.err /\ codec.out = codec.code)
  /\ \A c \in 0..16 :
       (codec.op = "UnmarshalText" /\ codec.text = SpecString[c + 1])
       => (~codec.err /\ codec.out = [hi |-> 0, lo |-> c])
  /\ (codec.op = "UnmarshalText" /\ codec.text = <<"CANCELLED">>)
     => codec.out = [hi |-> 0, lo |-> 1]

\* 16 serializes to "16", which parses back to 16.
C12_Witness ==
  /\ codec.op = "RoundTrip"
  /\ codec.code = [hi |-> 0, lo |-> 16]
  /\ codec.text = <<"1", "6">>
  /\ ~codec.err /\ codec.out = [hi |-> 0, lo |-> 16]

\* C13: a code outside [0, 16] does not serialize; the decimal numeral of an
\* integer outside [0, 16] does not parse; a text that is neither one of the
\* 17 specification strings nor a decimal numeral does not parse.
C13_OutOfRangeRejected ==
  /\ (codec.op = "MarshalText" /\ ~SmallCode(codec.code)) => codec.err
  /\ (codec.op = "UnmarshalText" /\ codec.kind = "numeral" /\ codec.n \notin 0..16)
     => codec.err
  /\ (codec.op = "UnmarshalText" /\ codec.kind = "big") => codec.err
  /\ (codec.op = "UnmarshalText" /\ codec.kind = "word"
        /\ ~(\E c \in 0..16 : codec.text = SpecString[c + 1]))
     => codec.err

\* 65541 has the low half of 5 and does not serialize.
C13_Witness ==
  /\ codec.op = "MarshalText"
  /\ codec.code = [hi |-> 1, lo |-> 5]
  /\ codec.err

\* The call read the whole body and returned what extractError made of the
\* trailers.
FromTrailer(g) ==
  /\ Returned(g) /\ Responded(g)
  /\ response[g].read = "ok"
  /\ Has(trace[g], "extractError(Trailer)")

Digits == {"0", "1", "2", "3", "4", "5", "6", "7", "8", "9"}

\* A non-empty text of decimal digits.
IsUnsignedNumeral(t) == t # <<>> /\ \A i \in 1..Len(t) : t[i] \in Digits

\* An unsigned numeral with an optional sign in front.
IsSignedNumeral(t) ==
  t # <<>> /\ IsUnsignedNumeral(IF t[1] \in {"+", "-"} THEN Tail(t) ELSE t)

\* The number an unsigned numeral denotes.
RECURSIVE NumeralValue(_)
NumeralValue(t) ==
  IF t = <<>> THEN 0
  ELSE 10 * NumeralValue(SubSeq(t, 1, Len(t) - 1))
       + (CHOOSE d \in 0..9 : DigitChar[d + 1] = t[Len(t)])

\* The messages the servers send, percent-decoded.
DecodedMessage(m) ==
  IF m = <<"n", "o", "%", "2", "0", "p", "e">> THEN <<"n", "o", " ", "p", "e">> ELSE m

\* C14: for trailers without Grpc-Status-Details-Bin, the extraction gives nil
\* when Grpc-Status is absent or "0", an Unknown error when Grpc-Status is not
\* an unsigned integer, and else an error whose code is the parsed number and
\* whose message is the percent-decoded Grpc-Message.
C14_StatusWithoutDetails ==
  \A g \in 1..MaxCalls :
    (FromTrailer(g) /\ Get(response[g].Trailer, "Grpc-Status-Details-Bin") = <<>>)
    => LET st == Get(response[g].Trailer, "Grpc-Status")
       IN IF st \in {<<>>, <<"0">>} THEN ret[g].nil
          ELSE IF ~IsUnsignedNumeral(st)
            THEN ~ret[g].nil /\ ret[g].code = [hi |-> 0, lo |-> 2]
          ELSE /\ ~ret[g].nil
               /\ ret[g].code = [hi |-> 0, lo |-> NumeralValue(st)]
               /\ ret[g].message = DecodedMessage(Get(response[g].Trailer, "Grpc-Message"))

\* The structured statuses the servers send, by their base64 text: the code,
\* message and details of a payload that decodes and parses.
Payloads ==
  {[text |-> <<"C", "A", "U", "S", "A", "W", "0", "a", "A", "X", "g", "=">>,
    code |-> 5, message |-> <<"m">>, details |-> << <<120>> >>],
   [text |-> <<"C", "B", "E", "=">>, code |-> 17, message |-> <<>>, details |-> <<>>],
   [text |-> <<"E", "g", "F", "4">>, code |-> 0, message |-> <<"x">>, details |-> <<>>]}

\* What the claim says of trailers that carry Grpc-Status-Details-Bin.
DetailsDecide(g) ==
  LET det == Get(response[g].Trailer, "Grpc-Status-Details-Bin")
  IN /\ ~ret[g].nil
     /\ IF \E p \in Payloads : p.text = det
          THEN \A p \in Payloads :
                 p.text = det => /\ ret[g].code = [hi |-> 0, lo |-> p.code]
                                 /\ ret[g].message = p.message
                                 /\ ret[g].details = p.details
          ELSE ret[g].code = [hi |-> 0, lo |-> 2]

\* C15 as stated: for every trailer set that carries Grpc-Status-Details-Bin, a
\* value that is no base64 or no status message gives an Unknown error, and a
\* valid one gives an error with the code, message and details of the payload.
C15_DetailsAlwaysDecide ==
  \A g \in 1..MaxCalls :
    (FromTrailer(g) /\ Get(response[g].Trailer, "Grpc-Status-Details-Bin") # <<>>)
    => DetailsDecide(g)

\* C15, amended: the same, for the trailer sets whose Grpc-Status is present,
\* is not "0" and is a decimal integer (with or without a sign).
C15_DetailsDecideAfterStatus ==
  \A g \in 1..MaxCalls :
    (FromTrailer(g) /\ Get(response[g].Trailer, "Grpc-Status-Details-Bin") # <<>>
       /\ Get(response[g].Trailer, "Grpc-Status") \notin {<<>>, <<"0">>}
       /\ IsSignedNumeral(Get(response[g].Trailer, "Grpc-Status")))
    => DetailsDecide(g)

\* Grpc-Status 10 and Grpc-Message "no%20pe" with the payload {5, "m", detail}:
\* the payload wins.
C15_Witness ==
  \E g \in 1..MaxCalls :
    /\ FromTrailer(g)
    /\ Get(response[g].Trailer, "Grpc-Status") = <<"1", "0">>
    /\ Get(response[g].Trailer, "Grpc-Message") = <<"n", "o", "%", "2", "0", "p", "e">>
    /\ Get(response[g].Trailer, "Grpc-Status-Details-Bin")
         = <<"C", "A", "U", "S", "A", "W", "0", "a", "A", "X", "g", "=">>
    /\ ret[g].code = [hi |-> 0, lo |-> 5]
    /\ ret[g].message = <<"m">>
    /\ ret[g].details = << <<120>> >>

\* C20: a non-nil error that extractError returns never carries the code OK
\* (0), also for Grpc-Status "00" and for a payload whose code is 0.
C20_NoErrorWithCodeOK ==
  \A g \in 1..MaxCalls :
    (FromTrailer(g) /\ ~ret[g].nil) => ret[g].code # [hi |-> 0, lo |-> 0]

\* C16: a response whose HTTP status is not 200 and whose headers carry a
\* Grpc-Status is not classified by the HTTP status table: the error the call
\* returns is not the table's "HTTP status ..." error.
C16_TableOnlyWithoutGrpcStatus ==
  \A g \in 1..MaxCalls :
    (Returned(g) /\ Responded(g) /\ response[g].StatusCode # 200
       /\ Get(response[g].Header, "Grpc-Status") # <<>>)
    => ~(/\ ~ret[g].nil
         /\ ret[g].code = [hi |-> 0, lo |-> TableCode(response[g].StatusCode)]
         /\ ret[g].message # <<>>
         /\ Head(ret[g].message) = "HTTP status ")

\* The error of the interceptor that rejects every call.
Rejected(e) ==
  /\ ~e.nil
  /\ e.code = [hi |-> 0, lo |-> 9]
  /\ e.message = <<"rejected by interceptor">>

\* C17: a configured interceptor wraps the terminal function exactly once and
\* none is wrapped without one; the terminal function runs at most once per
\* Call; when the interceptor returns an error without invoking next, the
\* terminal function and the transport never run and Call returns that error;
\* with no interceptor the terminal function runs exactly once, on the context
\* Call derived.
C17_InterceptorWrapsOnce ==
  \A g \in 1..MaxCalls :
    Started(g)
    => /\ wraps[g] = (IF cfg[g].Interceptor = "nil" THEN 0 ELSE 1)
       /\ Len(called[g]) <= 1
       /\ cfg[g].Interceptor = "short"
          => /\ called[g] = <<>>
             /\ trace[g] = <<>>
             /\ ~request[g].sent
             /\ ~response[g].got /\ ~response[g].failed
             /\ pc[g] = "done"
             /\ Rejected(ret[g])
       /\ cfg[g].Interceptor = "nil"
          => /\ Len(called[g]) = 1
             /\ called[g][1] = ctx[g]

\* A call rejected by its interceptor: wrapped once, transport untouched.
C17_Witness ==
  \E g \in 1..MaxCalls :
    /\ Returned(g)
    /\ cfg[g].Interceptor = "short"
    /\ wraps[g] = 1
    /\ called[g] = <<>>
    /\ ~request[g].sent
    /\ Rejected(ret[g])

\* C18: every request handed to the transport is a POST whose headers carry
\* User-Agent, Content-Type application/grpc+proto, Te trailers,
\* Grpc-Accept-Encoding identity,gzip, and Grpc-Encoding gzip when the folded
\* configuration enables gzip requests and identity otherwise; the compression
\* the body is marshalled with is the Grpc-Encoding sent.
C18_RequestShape ==
  \A g \in 1..MaxCalls :
    (Started(g) /\ request[g].sent)
    => LET h == heap[request[g].Header]
       IN /\ request[g].Method = "POST"
          /\ Get(h, "User-Agent") # <<>>
          /\ Get(h, "Content-Type") = <<"application/grpc+proto">>
          /\ Get(h, "Te") = <<"trailers">>
          /\ Get(h, "Grpc-Accept-Encoding") = <<"identity,gzip">>
          /\ Get(h, "Grpc-Encoding")
               = (IF cfg[g].EnableGzipRequest THEN <<"gzip">> ELSE <<"identity">>)
          /\ request[g].Compression = Get(h, "Grpc-Encoding")

\* A call whose Gzip(false) option overrides the client's Gzip(true): the
\* request goes out uncompressed, still advertising gzip.
C18_Witness ==
  \E g \in 1..MaxCalls :
    /\ Started(g) /\ request[g].sent
    /\ ~cfg[g].EnableGzipRequest
    /\ Get(heap[request[g].Header], "Grpc-Encoding") = <<"identity">>
    /\ Get(heap[request[g].Header], "Grpc-Accept-Encoding") = <<"identity,gzip">>
    /\ request[g].Compression = <<"identity">>

NoMetadataMessage == <<"no call metadata available on context">>

\* C19: with no interceptor, or with one that hands the context it received
\* on to next, the terminal function runs on a context that carries the call's
\* specification, its request headers and a response header set that is empty
\* until the response arrives, and Call never returns the error
\* "no call metadata available".
C19_MetadataAlwaysAttached ==
  \A g \in 1..MaxCalls :
    (Started(g) /\ cfg[g].Interceptor \in {"nil", "pass"})
    => /\ Len(called[g]) = 1
       /\ called[g][1].md.has
       /\ called[g][1].md.Spec.Method = ClientMethod
       /\ called[g][1].md.Spec.RequestCompression
            = (IF cfg[g].EnableGzipRequest THEN <<"gzip">> ELSE <<"identity">>)
       /\ Get(heap[called[g][1].md.Request], "Content-Type") = <<"application/grpc+proto">>
       /\ ~Responded(g) => heap[called[g][1].md.Response] = EmptyHeader
       /\ ret[g].nil \/ ret[g].message # NoMetadataMessage

\* A call through the pass-through interceptor that reaches the transport and
\* succeeds.
C19_Witness ==
  \E g \in 1..MaxCalls :
    /\ Returned(g)
    /\ cfg[g].Interceptor = "pass"
    /\ called[g][1].md.has
    /\ Has(trace[g], "Do")
    /\ ret[g].nil

====
